---- MODULE Spec2Model ----
(***************************************************************************)
(* A model of the Billboard chart chatbot: the rule cascade of             *)
(* enhanced_query_parser, the aggregation and song-match functions of      *)
(* data_utils, the FLAN-T5 fallback's post-processing and the orchestrator *)
(* respond_to_query.                                                       *)
(*                                                                         *)
(* Text is modelled as a sequence of one-character strings, so that the    *)
(* regular expressions, str.lower, str.strip, str.split and int() of the   *)
(* source are computed character by character.  None is <<>> and a         *)
(* present optional value x is <<x>>.  A Python dict is a function whose   *)
(* domain is the set of its keys.                                          *)
(***************************************************************************)
EXTENDS Integers, Sequences, FiniteSets, TLC

\* ------------------------------------------------------------------ text

\* The characters of a string literal, one per element.
Chars(str) == [i \in 1..Len(str) |-> SubSeq(str, i, i)]

LowerLetters == Chars("abcdefghijklmnopqrstuvwxyz")
UpperLetters == Chars("ABCDEFGHIJKLMNOPQRSTUVWXYZ")
DigitChars == Chars("0123456789")

\* The characters the model's texts are written in, in code-point order.
CharOrder == Chars(" \"'()0123456789:;?") \o UpperLetters \o Chars("_") \o LowerLetters

Range(f) == {f[i] : i \in DOMAIN f}

AnyChar == Range(CharOrder)
Digit == Range(DigitChars)
Space == {" "}
WordChar == Range(LowerLetters) \cup Range(UpperLetters) \cup Digit \cup {"_"}

\* ord(c), as far as the order of two characters goes.
Ord(c) == CHOOSE i \in DOMAIN CharOrder : CharOrder[i] = c

\* str.lower() on one character.
LowerChar(c) ==
    IF c \in Range(UpperLetters)
    THEN LowerLetters[CHOOSE i \in DOMAIN UpperLetters : UpperLetters[i] = c]
    ELSE c

\* str.lower()
Lower(s) == [i \in 1..Len(s) |-> LowerChar(s[i])]

\* s[i-1:j] of Python, 1-based and inclusive here; empty when j < i.
Slice(s, i, j) == IF j < i THEN <<>> ELSE SubSeq(s, i, j)

\* Length of the longest run of characters of cls in s from position i.
RECURSIVE RunLen(_, _, _)
RunLen(s, i, cls) ==
    IF i <= Len(s) /\ s[i] \in cls THEN 1 + RunLen(s, i + 1, cls) ELSE 0

\* The same, backwards from position i.
RECURSIVE RunLenBack(_, _, _)
RunLenBack(s, i, cls) ==
    IF i >= 1 /\ s[i] \in cls THEN 1 + RunLenBack(s, i - 1, cls) ELSE 0

\* str.strip(): leading and trailing characters of `cs` removed.
StripChars(s, cs) == Slice(s, RunLen(s, 1, cs) + 1, Len(s) - RunLenBack(s, Len(s), cs))

Strip(s) == StripChars(s, Space)

\* Whether `lit` occurs in s at position i.
StartsWith(s, i, lit) ==
    /\ i + Len(lit) - 1 <= Len(s)
    /\ \A k \in 1..Len(lit) : s[i + k - 1] = lit[k]

\* `sub in s` of Python.
Contains(s, sub) == \E i \in 1..(Len(s) - Len(sub) + 1) : StartsWith(s, i, sub)

\* Length of the common prefix of s and t from position i.
RECURSIVE PrefixLen(_, _, _)
PrefixLen(s, t, i) ==
    IF i <= Len(s) /\ i <= Len(t) /\ s[i] = t[i] THEN 1 + PrefixLen(s, t, i + 1) ELSE 0

\* Lexicographic order by code point: s < t of Python strings.
StrLessAt(s, t, k) ==
    k <= Len(t) /\ (k = Len(s) + 1 \/ Ord(s[k]) < Ord(t[k]))

StrLess(s, t) == StrLessAt(s, t, PrefixLen(s, t, 1) + 1)

\* str.isdigit()
IsDigit(s) == Len(s) > 0 /\ \A i \in 1..Len(s) : s[i] \in Digit

DigitValue(c) == (CHOOSE i \in DOMAIN DigitChars : DigitChars[i] = c) - 1

\* int(s) for a string of decimal digits.
RECURSIVE IntOf(_)
IntOf(s) ==
    IF Len(s) = 0 THEN 0
    ELSE 10 * IntOf(SubSeq(s, 1, Len(s) - 1)) + DigitValue(s[Len(s)])

\* str(n) for n >= 0.
RECURSIVE StrOf(_)
StrOf(n) ==
    IF n < 10 THEN <<DigitChars[n + 1]>>
    ELSE StrOf(n \div 10) \o <<DigitChars[(n % 10) + 1]>>

\* --------------------------------------------------- regular expressions

\* A regular expression is a sequence of elements:
\*   lit   a literal text
\*   end   $
\*   rep   one character class repeated min..max times, greedy or lazy,
\*         captured as group g when g > 0
\*   alt   alternatives tried in order, each a regular expression,
\*         captured as group g when g > 0
\*   cap   (internal) closes the capture of an alternation
Lit(str) == [t |-> "lit", s |-> Chars(str)]
End == [t |-> "end"]
Rep(cls, min, max, greedy, g) ==
    [t |-> "rep", cls |-> cls, min |-> min, max |-> max, greedy |-> greedy, g |-> g]
Alt(alts) == [t |-> "alt", alts |-> alts, g |-> 0]
AltG(alts, g) == [t |-> "alt", alts |-> alts, g |-> g]
Opt(re) == Alt(<<re, <<>>>>)

Unbounded == -1

WS1 == Rep(Space, 1, Unbounded, TRUE, 0)            \* \s+
WS0 == Rep(Space, 0, Unbounded, TRUE, 0)            \* \s*
DigitsG(g) == Rep(Digit, 1, Unbounded, TRUE, g)     \* (\d+)
DigitsN(n, g) == Rep(Digit, n, n, TRUE, g)          \* (\d{n})
LazyG(g) == Rep(AnyChar, 1, Unbounded, FALSE, g)    \* (.+?)
NotG(cs, g) == Rep(AnyChar \ cs, 1, Unbounded, TRUE, g)  \* ([^cs]+)
OneOf(strs) == Alt([i \in 1..Len(strs) |-> <<Lit(strs[i])>>])   \* (?:a|b|c)

NoMatch == [ok |-> FALSE]
NoGroups == <<<<>>, <<>>>>

SetGroup(caps, g, text) == IF g > 0 THEN [caps EXCEPT ![g] = text] ELSE caps

\* The backtracking matcher of Python's re: the first success, in the order
\* the alternatives, greedy and lazy repetitions are tried.
RECURSIVE MatchAt(_, _, _, _)
RECURSIVE TryAlts(_, _, _, _, _, _)
RECURSIVE TryReps(_, _, _, _, _, _, _)
MatchAt(re, s, i, caps) ==
    IF Len(re) = 0 THEN [ok |-> TRUE, end |-> i, caps |-> caps]
    ELSE LET e == Head(re)
             rest == Tail(re)
         IN CASE e.t = "lit" ->
                   IF StartsWith(s, i, e.s)
                   THEN MatchAt(rest, s, i + Len(e.s), caps) ELSE NoMatch
              [] e.t = "end" ->
                   IF i = Len(s) + 1 THEN MatchAt(rest, s, i, caps) ELSE NoMatch
              [] e.t = "cap" ->
                   MatchAt(rest, s, i, SetGroup(caps, e.g, Slice(s, e.from, i - 1)))
              [] e.t = "alt" ->
                   TryAlts(e, 1, rest, s, i, caps)
              [] e.t = "rep" ->
                   LET run == RunLen(s, i, e.cls)
                       most == IF e.max = Unbounded \/ run < e.max THEN run ELSE e.max
                   IN IF most < e.min THEN NoMatch
                      ELSE TryReps(e, IF e.greedy THEN most ELSE e.min, most, rest, s, i, caps)

TryAlts(e, j, rest, s, i, caps) ==
    IF j > Len(e.alts) THEN NoMatch
    ELSE LET r == MatchAt(e.alts[j] \o <<[t |-> "cap", g |-> e.g, from |-> i]>> \o rest,
                          s, i, caps)
         IN IF r.ok THEN r ELSE TryAlts(e, j + 1, rest, s, i, caps)

TryReps(e, k, most, rest, s, i, caps) ==
    IF k < e.min \/ k > most THEN NoMatch
    ELSE LET r == MatchAt(rest, s, i + k, SetGroup(caps, e.g, Slice(s, i, i + k - 1)))
         IN IF r.ok THEN r
            ELSE TryReps(e, IF e.greedy THEN k - 1 ELSE k + 1, most, rest, s, i, caps)

\* re.search(pattern, s): the leftmost start at which the pattern matches.
RECURSIVE SearchFrom(_, _, _)
SearchFrom(re, s, i) ==
    IF i > Len(s) + 1 THEN NoMatch
    ELSE LET r == MatchAt(re, s, i, NoGroups)
         IN IF r.ok THEN r @@ [start |-> i]
            ELSE SearchFrom(re, s, i + 1)

Search(re, s) == SearchFrom(re, s, 1)

\* The first pattern of a list that matches, as [ok, k, caps], or NoMatch.
RECURSIVE FirstMatch(_, _, _)
FirstMatch(patterns, s, k) ==
    IF k > Len(patterns) THEN NoMatch
    ELSE LET r == Search(patterns[k], s)
         IN IF r.ok THEN r @@ [k |-> k] ELSE FirstMatch(patterns, s, k + 1)

\* \b at position i of s: between s[i-1] and s[i].
AlwaysBoundary(s, i) == TRUE
Boundary(s, i) ==
    LET before == i > 1 /\ s[i - 1] \in WordChar
        after == i <= Len(s) /\ s[i] \in WordChar
    IN before # after

\* re.sub(r'\bword\b', '', s, flags=re.IGNORECASE)
RECURSIVE RemoveWordFrom(_, _, _)
RemoveWordFrom(s, word, i) ==
    IF i > Len(s) THEN <<>>
    ELSE IF /\ StartsWith(Lower(s), i, word)
            /\ Boundary(s, i)
            /\ Boundary(s, i + Len(word))
         THEN RemoveWordFrom(s, word, i + Len(word))
         ELSE <<s[i]>> \o RemoveWordFrom(s, word, i + 1)

RemoveWord(s, word) == RemoveWordFrom(s, word, 1)

\* re.sub(r'\s+', ' ', s)
RECURSIVE CollapseFrom(_, _)
CollapseFrom(s, i) ==
    IF i > Len(s) THEN <<>>
    ELSE IF s[i] \in Space
         THEN <<" ">> \o CollapseFrom(s, i + RunLen(s, i, Space))
         ELSE <<s[i]>> \o CollapseFrom(s, i + 1)

CollapseSpaces(s) == CollapseFrom(s, 1)

\* The loop over cleanup_words: each word removed in list order, the text
\* stripped after each removal; then whitespace collapsed and stripped.
RECURSIVE RemoveWords(_, _, _)
RemoveWords(s, words, k) ==
    IF k > Len(words) THEN s
    ELSE RemoveWords(Strip(RemoveWord(s, Chars(words[k]))), words, k + 1)

CleanName(s, words) == Strip(CollapseSpaces(RemoveWords(s, words, 1)))

\* ------------------------------------------------------------ the parser

I_top_songs == Chars("top_songs")
I_top_songs_decade == Chars("top_songs_decade")
I_song_duration == Chars("song_duration")
I_song_duration_with_artist == Chars("song_duration_with_artist")

OfFromIn == OneOf(<<"of", "from", "in">>)
OfFrom == OneOf(<<"of", "from">>)
Songs == <<Lit("song"), Opt(<<Lit("s")>>)>>                     \* songs?
SongsOrHits == Alt(<<Songs, <<Lit("hit"), Opt(<<Lit("s")>>)>>>>) \* (?:songs?|hits?)
QmarkOrEnd == Alt(<<<<Lit("?")>>, <<End>>>>)                    \* (?:\?|$)
QmarkEndOrOn == Alt(<<<<Lit("?")>>, <<End>>, <<Lit("on")>>>>)   \* (?:\?|$|on)

top_year_patterns == <<
    <<Lit("top"), WS1, DigitsG(1), WS1>> \o Songs \o <<WS1, OfFromIn, WS1, DigitsN(4, 2)>>,
    <<Lit("best"), WS1, DigitsG(1), WS1, SongsOrHits, WS1, OfFromIn, WS1, DigitsN(4, 2)>>,
    <<DigitsG(1), WS1, OneOf(<<"top", "best">>), WS1>> \o Songs
        \o <<WS1, OfFromIn, WS1, DigitsN(4, 2)>>,
    <<Lit("show"), WS1, Lit("me"), WS1, Opt(<<Lit("top"), WS1>>), DigitsG(1), WS1>> \o Songs
        \o <<WS1, OfFromIn, WS1, DigitsN(4, 2)>>
>>

top_year_default_patterns == <<
    <<Lit("top"), WS1>> \o Songs \o <<WS1, OfFromIn, WS1, DigitsN(4, 1)>>,
    <<Lit("best"), WS1, SongsOrHits, WS1, OfFromIn, WS1, DigitsN(4, 1)>>,
    <<Lit("popular"), WS1>> \o Songs \o <<WS1, OfFromIn, WS1, DigitsN(4, 1)>>
>>

decade_patterns == <<
    <<OneOf(<<"top", "best">>), WS1, SongsOrHits, WS1, OfFrom, WS1, Lit("the"), WS1,
      DigitsN(2, 1), Lit("s")>>,
    <<OneOf(<<"top", "best">>), WS1, SongsOrHits, WS1, OfFrom, WS1, DigitsN(4, 1), Lit("s")>>,
    <<Lit("best"), WS1, Lit("of"), WS1, Opt(<<Lit("the"), WS1>>), DigitsN(2, 1), Lit("s")>>,
    <<Lit("best"), WS1, Lit("of"), WS1, DigitsN(4, 1), Lit("s")>>
>>

duration_with_artist_patterns == <<
    <<Lit("how long "), OneOf(<<"was", "did">>), Lit(" "), LazyG(1), Lit(" by "), LazyG(2),
      Lit(" "), OneOf(<<"stay", "on", "chart", "last">>)>>,
    <<Lit("how many weeks "), OneOf(<<"was", "did">>), Lit(" "), LazyG(1), Lit(" by "),
      LazyG(2), Lit(" "), OneOf(<<"on", "stay", "chart">>)>>,
    <<LazyG(1), Lit(" by "), LazyG(2), Lit(" "), OneOf(<<"duration", "weeks", "chart time">>),
      QmarkOrEnd>>,
    <<Lit("duration "), OneOf(<<"of", "for">>), Lit(" "), LazyG(1), Lit(" by "), LazyG(2),
      QmarkEndOrOn>>,
    <<LazyG(1), Lit(" by "), LazyG(2), Lit(" on "), Opt(<<Lit("the ")>>), Lit("chart"),
      QmarkOrEnd>>
>>

duration_patterns == <<
    <<Lit("how long "), OneOf(<<"was", "did">>), Lit(" "), LazyG(1), Lit(" "),
      OneOf(<<"stay", "on", "chart", "last">>)>>,
    <<Lit("how many weeks "), OneOf(<<"was", "did">>), Lit(" "), LazyG(1), Lit(" "),
      OneOf(<<"on", "stay", "chart">>)>>,
    <<Lit("duration "), OneOf(<<"of", "for">>), Lit(" "), LazyG(1), QmarkEndOrOn>>,
    <<Lit("weeks "), OneOf(<<"for", "of">>), Lit(" "), LazyG(1), QmarkEndOrOn>>,
    <<LazyG(1), Lit(" "), OneOf(<<"duration", "weeks", "chart time">>), QmarkOrEnd>>,
    <<Lit("chart time "), OneOf(<<"for", "of">>), Lit(" "), LazyG(1), QmarkOrEnd>>,
    <<Lit("how long "), LazyG(1), QmarkOrEnd>>,
    <<LazyG(1), Lit(" on "), Opt(<<Lit("the ")>>), Lit("chart"), QmarkOrEnd>>,
    <<LazyG(1), Lit(" billboard"), QmarkOrEnd>>
>>

cleanup_words_artist ==
    <<"the", "on", "chart", "billboard", "hot", "100", "was", "did", "stay", "long">>
cleanup_words == <<"the", "on", "chart", "billboard", "hot", "100", "was", "did">>

DefaultYearN == 10
DefaultDecadeN == 20

EmptyDict == <<>>

\* Rules 4 and 5 try their patterns in order and go on to the next pattern
\* when the cleaned capture is empty.
RECURSIVE ArtistRuleKeepsEmpty(_, _)
ArtistRuleKeepsEmpty(q, k) ==
    IF k > Len(duration_with_artist_patterns) THEN EmptyDict
    ELSE LET m == Search(duration_with_artist_patterns[k], q)
         IN IF m.ok
            THEN [intent |-> I_song_duration_with_artist,
                  song |-> CleanName(Strip(m.caps[1]), cleanup_words_artist),
                  artist |-> CleanName(Strip(m.caps[2]), cleanup_words_artist)]
            ELSE ArtistRuleKeepsEmpty(q, k + 1)
RECURSIVE ArtistRule(_, _)
ArtistRule(q, k) ==
    IF k > Len(duration_with_artist_patterns) THEN EmptyDict
    ELSE LET m == Search(duration_with_artist_patterns[k], q)
             song_name == CleanName(Strip(m.caps[1]), cleanup_words_artist)
             artist_name == CleanName(Strip(m.caps[2]), cleanup_words_artist)
         IN IF m.ok /\ Len(song_name) > 0 /\ Len(artist_name) > 0
            THEN [intent |-> I_song_duration_with_artist, song |-> song_name,
                  artist |-> artist_name]
            ELSE ArtistRule(q, k + 1)

RECURSIVE DurationRule(_, _)
DurationRule(q, k) ==
    IF k > Len(duration_patterns) THEN EmptyDict
    ELSE LET m == Search(duration_patterns[k], q)
             song_name == CleanName(Strip(m.caps[1]), cleanup_words)
         IN IF m.ok /\ Len(song_name) > 0
            THEN [intent |-> I_song_duration, song |-> song_name]
            ELSE DurationRule(q, k + 1)

\* The decade a decade token stands for.
DecadeYearOf1900(decade_str) == 1900 + IntOf(decade_str)
DecadeYear(decade_str) ==
    IF Len(decade_str) = 2
    THEN IF IntOf(decade_str) >= 50 THEN 1900 + IntOf(decade_str)
         ELSE 2000 + IntOf(decade_str)
    ELSE IntOf(decade_str)

\* enhanced_query_parser(query): the rule cascade, the first rule that matches.
enhanced_query_parser(query_text) ==
    LET query_lower == Strip(Lower(query_text))
        m1 == FirstMatch(top_year_patterns, query_lower, 1)
        m2 == FirstMatch(top_year_default_patterns, query_lower, 1)
        m3 == FirstMatch(decade_patterns, query_lower, 1)
        r4 == ArtistRule(query_lower, 1)
    IN IF m1.ok
       THEN [intent |-> I_top_songs, n |-> IntOf(m1.caps[1]), year |-> IntOf(m1.caps[2])]
       ELSE IF m2.ok
       THEN [intent |-> I_top_songs, year |-> IntOf(m2.caps[1]), n |-> DefaultYearN]
       ELSE IF m3.ok
       THEN [intent |-> I_top_songs_decade, decade_start |-> DecadeYear(m3.caps[1]),
             n |-> DefaultDecadeN]
       ELSE IF DOMAIN r4 # {} THEN r4
       ELSE DurationRule(query_lower, 1)

\* ------------------------------------------- patterns given by the user

\* Series.str.contains(pat, case=False) compiles pat as a regular
\* expression.  Of the characters of the model's texts, ( ) and ? are
\* special: a group, and the optional quantifier (? greedy, ?? lazy).
\* CompileFrom gives [ok, re, next]; ok is FALSE where re.compile raises
\* re.error (unbalanced parenthesis, nothing to repeat, multiple repeat);
\* a group that opens with (? is an extension, which no text of the model
\* holds, and is refused.
RECURSIVE CompileFrom(_, _, _)
CompileFrom(p, i, inGroup) ==
    IF i > Len(p) THEN [ok |-> ~inGroup, re |-> <<>>, next |-> i]
    ELSE IF p[i] = ")" THEN [ok |-> inGroup, re |-> <<>>, next |-> i]
    ELSE IF p[i] = "?" THEN [ok |-> FALSE, re |-> <<>>, next |-> i]
    ELSE LET group == IF p[i] = "(" /\ ~(i < Len(p) /\ p[i + 1] = "?")
                      THEN CompileFrom(p, i + 1, TRUE)
                      ELSE [ok |-> FALSE, re |-> <<>>, next |-> i]
             atom == IF p[i] = "("
                     THEN [ok |-> group.ok, re |-> <<Alt(<<group.re>>)>>, next |-> group.next + 1]
                     ELSE [ok |-> TRUE, re |-> <<[t |-> "lit", s |-> <<LowerChar(p[i])>>]>>,
                           next |-> i + 1]
             marks == RunLen(p, atom.next, {"?"})
             item == IF marks = 0 THEN atom.re ELSE <<Opt(atom.re)>>
             rest == CompileFrom(p, atom.next + marks, inGroup)
         IN IF atom.ok /\ marks <= 2 /\ rest.ok
            THEN [ok |-> TRUE, re |-> item \o rest.re, next |-> rest.next]
            ELSE [ok |-> FALSE, re |-> <<>>, next |-> i]

Compile(p) == CompileFrom(p, 1, FALSE)

\* Whether re.compile(p) raises.
BadPattern(p) == ~Compile(p).ok

\* re.search(p, text, re.IGNORECASE) is not None, for a pattern that compiles.
RegexContains(text, p) == Search(Compile(p).re, Lower(text)).ok

\* ------------------------------------------------------------- the store

\* A ChartEntry: one row of the data frame df.
Entry(song, artist, rank, peak, weeks, last, year) ==
    [song |-> Chars(song), artist |-> Chars(artist), rank |-> rank, peak_rank |-> peak,
     weeks_on_board |-> weeks, last_week |-> last, year |-> year]

Min(S) == CHOOSE m \in S : \A o \in S : m <= o
Max(S) == CHOOSE m \in S : \A o \in S : m >= o

\* df['year'].min() <= year <= df['year'].max()
validate_year_range(df, year) ==
    /\ Len(df) > 0
    /\ Min({df[i].year : i \in DOMAIN df}) <= year
    /\ year <= Max({df[i].year : i \in DOMAIN df})

KeyLess(a, b) ==
    \/ StrLess(a[1], b[1])
    \/ a[1] = b[1] /\ StrLess(a[2], b[2])

\* The group keys (song, artist) of a frame, sorted as groupby sorts them.
RECURSIVE SortKeys(_)
SortKeys(K) ==
    IF K = {} THEN <<>>
    ELSE LET k == CHOOSE a \in K : \A b \in K \ {a} : KeyLess(a, b)
         IN <<k>> \o SortKeys(K \ {k})

GroupKeys(rows) == SortKeys({<<rows[i].song, rows[i].artist>> : i \in DOMAIN rows})

\* groupby(['song', 'artist']).agg(rank min, peak-rank min, weeks-on-board max,
\* year first, last-week first).reset_index(): one aggregate per group.
Aggregate(rows, key) ==
    LET idx == {i \in DOMAIN rows : rows[i].song = key[1] /\ rows[i].artist = key[2]}
        first == rows[Min(idx)]
    IN [song |-> key[1], artist |-> key[2],
        rank |-> Min({rows[i].rank : i \in idx}),
        peak_rank |-> Min({rows[i].peak_rank : i \in idx}),
        weeks_on_board |-> Max({rows[i].weeks_on_board : i \in idx}),
        year |-> first.year,
        last_week |-> first.last_week]

GroupAgg(rows) ==
    LET keys == GroupKeys(rows) IN [k \in 1..Len(keys) |-> Aggregate(rows, keys[k])]

\* The columns a result of to_dict('records') carries.
YearRecord(a) == [song |-> a.song, artist |-> a.artist, rank |-> a.rank,
                  peak_rank |-> a.peak_rank, weeks_on_board |-> a.weeks_on_board,
                  last_week |-> a.last_week]
SongRecord(a) == [song |-> a.song, artist |-> a.artist, rank |-> a.rank,
                  peak_rank |-> a.peak_rank, weeks_on_board |-> a.weeks_on_board,
                  year |-> a.year]

\* DataFrame.head(n) for n >= 0.
Head_n(rows, n) == Slice(rows, 1, IF n < Len(rows) THEN n ELSE Len(rows))

\* sort_values('rank'): the default sort is not stable, so rows of equal rank
\* come in any order. The set of the orders it may produce.
RowOrders(rows) ==
    {[i \in DOMAIN rows |-> rows[p[i]]] :
        p \in {q \in [DOMAIN rows -> DOMAIN rows] : \A i, j \in DOMAIN rows : i # j => q[i] # q[j]}}

AnyRowOrder(rows) == RowOrders(rows)
SortValuesRank(rows) ==
    {s \in RowOrders(rows) : \A i \in 1..(Len(s) - 1) : s[i].rank <= s[i + 1].rank}

\* get_top_songs_by_year(year, n): the lists it may return. `fails` is
\* whether the frame operations raise; the function catches and returns [].
get_top_songs_by_year(df, year, n, fails) ==
    LET InYear(e) == e.year = year
        year_data == SelectSeq(df, InYear)
        aggs == GroupAgg(year_data)
    IN IF fails \/ Len(year_data) = 0 THEN {<<>>}
       ELSE {[i \in DOMAIN Head_n(s, n) |-> YearRecord(s[i])] : s \in SortValuesRank(aggs)}

\* get_decade_songs(decade_start, n)
get_decade_songs(df, decade_start, n, fails) ==
    LET InDecade(e) == e.year >= decade_start /\ e.year <= decade_start + 9
        decade_data == SelectSeq(df, InDecade)
        aggs == GroupAgg(decade_data)
    IN IF fails \/ Len(decade_data) = 0 THEN {<<>>}
       ELSE {[i \in DOMAIN Head_n(s, n) |-> SongRecord(s[i])] : s \in SortValuesRank(aggs)}

\* search_songs_by_artist(artist_name, limit): str.contains compiles
\* artist_name as a regular expression; re.error is caught and gives [].
search_songs_by_artist(df, artist_name, limit) ==
    LET ByArtist(e) == RegexContains(e.artist, artist_name)
        artist_songs == IF BadPattern(artist_name) THEN <<>> ELSE SelectSeq(df, ByArtist)
        aggs == GroupAgg(artist_songs)
    IN IF Len(artist_songs) = 0 THEN {<<>>}
       ELSE {[i \in DOMAIN Head_n(s, limit) |-> SongRecord(s[i])] : s \in SortValuesRank(aggs)}

\* find_songs_by_pattern(pattern, limit)
find_songs_by_pattern(df, pattern, limit) ==
    LET ByTitle(e) == RegexContains(e.song, pattern)
        matching_songs == IF BadPattern(pattern) THEN <<>> ELSE SelectSeq(df, ByTitle)
        aggs == GroupAgg(matching_songs)
    IN IF Len(matching_songs) = 0 THEN {<<>>}
       ELSE {[i \in DOMAIN Head_n(s, limit) |-> SongRecord(s[i])] : s \in SortValuesRank(aggs)}

\* ------------------------------------------------------ fuzzy similarity

\* Length of the common run of a from i (below ahi) and b from j (below bhi).
RECURSIVE CommonRun(_, _, _, _, _, _)
CommonRun(a, i, ahi, b, j, bhi) ==
    IF i < ahi /\ j < bhi /\ a[i] = b[j]
    THEN 1 + CommonRun(a, i + 1, ahi, b, j + 1, bhi) ELSE 0

\* Of the blocks <<i, j, size>>, the longest; of these the first in a; of
\* these the first in b.
FirstIn(cands, i) == <<i, Min({m[2] : m \in {o \in cands : o[1] = i}}), 0>>
FirstOf(cands) == FirstIn(cands, Min({m[1] : m \in cands}))
LongestOf(cands, size) ==
    [FirstOf({m \in cands : m[3] = size}) EXCEPT ![3] = size]
FirstLongest(cands, alo, blo) ==
    IF cands = {} THEN <<alo, blo, 0>>
    ELSE LongestOf(cands, Max({m[3] : m \in cands}))

\* SequenceMatcher.find_longest_match on a[alo, ahi) and b[blo, bhi): the
\* longest common block; of the longest, the first in a, then the first in b.
LongestMatch(a, alo, ahi, b, blo, bhi) ==
    FirstLongest({<<i, j, CommonRun(a, i, ahi, b, j, bhi)>> :
                     i \in alo..(ahi - 1), j \in blo..(bhi - 1)}, alo, blo)

\* SequenceMatcher.get_matching_blocks without the closing sentinel: the
\* longest block, then the same left and right of it.
RECURSIVE MatchingBlocks(_, _, _, _, _, _)
MatchingBlocks(a, alo, ahi, b, blo, bhi) ==
    IF alo >= ahi \/ blo >= bhi THEN {}
    ELSE LET m == LongestMatch(a, alo, ahi, b, blo, bhi)
         IN IF m[3] = 0 THEN {}
            ELSE {m} \cup MatchingBlocks(a, alo, m[1], b, blo, m[2])
                     \cup MatchingBlocks(a, m[1] + m[3], ahi, b, m[2] + m[3], bhi)

RECURSIVE SumSizes(_)
SumSizes(blocks) ==
    IF blocks = {} THEN 0
    ELSE LET m == CHOOSE m \in blocks : TRUE IN m[3] + SumSizes(blocks \ {m})

\* The number of matched characters of SequenceMatcher(None, a, b).
Matched(a, b) == SumSizes(MatchingBlocks(a, 1, Len(a) + 1, b, 1, Len(b) + 1))

\* int(round(num / den)), Python's round: halves go to the even integer.
RoundHalfEven(num, den) ==
    LET q == num \div den
        r == num % den
    IN IF 2 * r < den THEN q
       ELSE IF 2 * r > den THEN q + 1
       ELSE IF q % 2 = 0 THEN q ELSE q + 1

\* int(round(100 * SequenceMatcher(None, a, b).ratio()))
RatioPercent(a, b) ==
    IF Len(a) + Len(b) = 0 THEN 100
    ELSE RoundHalfEven(200 * Matched(a, b), Len(a) + Len(b))

\* fuzz.partial_ratio(s1, s2): the best ratio of the shorter text against a
\* window of the longer one, the windows aligned on the matching blocks.
partial_ratio(s1, s2) ==
    LET shorter == IF Len(s1) <= Len(s2) THEN s1 ELSE s2
        longer == IF Len(s1) <= Len(s2) THEN s2 ELSE s1
        blocks == MatchingBlocks(shorter, 1, Len(shorter) + 1, longer, 1, Len(longer) + 1)
        starts == {IF m[2] - m[1] > 0 THEN m[2] - m[1] ELSE 0 : m \in blocks}
                      \cup {Len(longer) - Len(shorter)}
        Window(st) == Slice(longer, st + 1,
                            IF st + Len(shorter) < Len(longer) THEN st + Len(shorter)
                            ELSE Len(longer))
    IN IF s1 = s2 THEN 100
       ELSE IF Len(s1) = 0 \/ Len(s2) = 0 THEN 0
       ELSE Max({RatioPercent(shorter, Window(st)) : st \in starts})

\* ------------------------------------------------------- the song matcher

FuzzyThreshold == 60
ExactScore == 100
ContainsScore == 85

MatchRecord(a, score, type) ==
    [song |-> a.song, artist |-> a.artist, weeks_on_chart |-> a.weeks_on_board,
     best_rank |-> a.rank, peak_rank |-> a.peak_rank, year |-> a.year,
     match_score |-> score, match_type |-> type]

\* list.sort(key=match_score, reverse=True): stable, the highest score first.
RECURSIVE SortByScoreDesc(_)
SortByScoreDesc(ms) ==
    IF Len(ms) = 0 THEN <<>>
    ELSE LET top == Max({ms[i].match_score : i \in DOMAIN ms})
             k == Min({i \in DOMAIN ms : ms[i].match_score = top})
         IN <<ms[k]>> \o SortByScoreDesc(SubSeq(ms, 1, k - 1) \o SubSeq(ms, k + 1, Len(ms)))

\* The fuzzy candidates: one per row of unique_songs whose title is not
\* already matched and scores at least the threshold; the data of each is
\* that of the first row with that title.
RECURSIVE FuzzyCandidates(_, _, _, _, _)
FuzzyCandidates(unique_songs, k, q, already_matched, threshold) ==
    IF k > Len(unique_songs) THEN <<>>
    ELSE LET song_title == unique_songs[k].song
             score == partial_ratio(Lower(q), Lower(song_title))
             song_data ==
                 unique_songs[Min({i \in DOMAIN unique_songs : unique_songs[i].song = song_title})]
         IN (IF Lower(song_title) \notin already_matched /\ score >= threshold
             THEN <<MatchRecord(song_data, score, "fuzzy")>> ELSE <<>>)
            \o FuzzyCandidates(unique_songs, k + 1, q, already_matched, threshold)

MatchRecords(rows, score, type) ==
    [i \in DOMAIN rows |-> MatchRecord(rows[i], score, type)]

\* unique_songs[unique_songs['artist'].str.contains(artist_name, case=False)]
\* after artist_name.strip(), when an artist is given.
FilterByArtist(unique_songs, artist_name) ==
    LET ByArtist(a) == RegexContains(a.artist, Strip(artist_name))
    IN IF Len(artist_name) > 0 THEN SelectSeq(unique_songs, ByArtist) ELSE unique_songs

\* 1. the rows whose title is the query, case-insensitively.
ExactMatches(unique_songs, query_song) ==
    LET IsExact(a) == Lower(a.song) = Lower(query_song)
    IN MatchRecords(SelectSeq(unique_songs, IsExact), ExactScore, "exact")

\* 2. the rows whose title holds the query as a pattern and is not the query.
ContainsMatches(unique_songs, query_song) ==
    LET IsContains(a) ==
            RegexContains(a.song, query_song) /\ Lower(a.song) # Lower(query_song)
    IN MatchRecords(SelectSeq(unique_songs, IsContains), ContainsScore, "contains")

\* return matches[:max_results]
ReturnedAll(matches, max_results) == matches
Returned(matches, max_results) == Head_n(matches, max_results)

\* 3. the fuzzy tier, if still not enough matches, and the return.
FuzzyTier(matches, unique_songs, query_song, max_results) ==
    Returned(
        IF Len(matches) < max_results
        THEN matches \o Head_n(
                 SortByScoreDesc(FuzzyCandidates(
                     unique_songs, 1, query_song,
                     {Lower(matches[i].song) : i \in DOMAIN matches}, FuzzyThreshold)),
                 max_results - Len(matches))
        ELSE matches,
        max_results)

\* The contains tier, if the exact tier is not enough; the pattern of a
\* query that does not compile raises, and the function returns [].
ContainsTier(matches, unique_songs, query_song, max_results) ==
    IF Len(matches) < max_results /\ BadPattern(query_song) THEN <<>>
    ELSE FuzzyTier(
             IF Len(matches) < max_results
             THEN matches \o Head_n(ContainsMatches(unique_songs, query_song),
                                    max_results - Len(matches))
             ELSE matches,
             unique_songs, query_song, max_results)

\* get_song_matches_with_duration(query_song, artist_name, max_results) with
\* the default fuzzy_threshold.  artist_name is <<>> for None or ''.  A
\* pattern that does not compile raises; the function catches the exception
\* and returns [].
SongMatches(unique_songs, query_song, max_results) ==
    ContainsTier(ExactMatches(unique_songs, query_song), unique_songs, query_song, max_results)

get_song_matches_with_duration(df, query_song, artist_name, max_results) ==
    IF Len(Strip(query_song)) = 0 THEN <<>>
    ELSE IF Len(artist_name) > 0 /\ BadPattern(Strip(artist_name)) THEN <<>>
    ELSE SongMatches(FilterByArtist(GroupAgg(df), artist_name), Strip(query_song), max_results)

\* ------------------------------------------------------------ formatting

BandTop == 50
BandSecond == 30
BandThird == 15

\* The qualitative comment format_song_duration_results adds for `weeks`.
DurationCommentAbove(weeks) ==
    IF weeks > BandTop THEN "incredible"
    ELSE IF weeks > BandSecond THEN "great"
    ELSE IF weeks > BandThird THEN "solid"
    ELSE "brief"
DurationCommentOneBandDown(weeks) ==
    IF weeks >= BandTop THEN "great"
    ELSE IF weeks >= BandSecond THEN "solid"
    ELSE "brief"
DurationComment(weeks) ==
    IF weeks >= BandTop THEN "incredible"
    ELSE IF weeks >= BandSecond THEN "great"
    ELSE IF weeks >= BandThird THEN "solid"
    ELSE "brief"

\* format_song_duration_results(matches, original_query).  A message is a
\* record: its kind (the template) and the values the template shows.
format_song_duration_results_listing(matches, original_query) ==
    IF Len(matches) = 1
    THEN LET song == matches[1]
         IN [kind |-> "single", song |-> song.song, artist |-> song.artist,
             year |-> song.year, weeks |-> song.weeks_on_chart,
             best_rank |-> song.best_rank,
             peak_line |-> IF song.peak_rank # song.best_rank THEN <<song.peak_rank>> ELSE <<>>,
             comments |-> <<DurationComment(song.weeks_on_chart)>>]
    ELSE [kind |-> "multiple", count |-> Len(matches), query |-> original_query,
          items |-> <<>>]
format_song_duration_results(matches, original_query) ==
    IF Len(matches) = 0
    THEN [kind |-> "not_found", query |-> original_query]
    ELSE IF Len(matches) = 1
    THEN LET song == matches[1]
         IN [kind |-> "single", song |-> song.song, artist |-> song.artist,
             year |-> song.year, weeks |-> song.weeks_on_chart,
             best_rank |-> song.best_rank,
             peak_line |-> IF song.peak_rank # song.best_rank THEN <<song.peak_rank>> ELSE <<>>,
             comments |-> <<DurationComment(song.weeks_on_chart)>>]
    ELSE [kind |-> "multiple", count |-> Len(matches), query |-> original_query,
          items |-> [i \in DOMAIN matches |->
                       [index |-> i, song |-> matches[i].song, artist |-> matches[i].artist,
                        year |-> matches[i].year,
                        indicator |-> IF matches[i].match_type = "exact" THEN "exact"
                                      ELSE IF matches[i].match_type = "fuzzy" THEN "score"
                                      ELSE "none",
                        score |-> IF matches[i].match_type = "fuzzy"
                                  THEN <<matches[i].match_score>> ELSE <<>>,
                        weeks |-> matches[i].weeks_on_chart,
                        peak_rank |-> matches[i].peak_rank]]]

\* ------------------------------------------------- the external parser

\* str.split(sep) for a one-character separator.
RECURSIVE SplitFrom(_, _, _, _)
SplitFrom(s, sep, i, from) ==
    IF i > Len(s) THEN <<Slice(s, from, Len(s))>>
    ELSE IF s[i] = sep THEN <<Slice(s, from, i - 1)>> \o SplitFrom(s, sep, i + 1, i + 1)
    ELSE SplitFrom(s, sep, i + 1, from)

Split(s, sep) == SplitFrom(s, sep, 1, 1)

\* sep.join(parts)
RECURSIVE Join(_, _)
Join(parts, sep) ==
    IF Len(parts) = 0 THEN <<>>
    ELSE IF Len(parts) = 1 THEN parts[1]
    ELSE parts[1] \o sep \o Join(Tail(parts), sep)

\* dict.get(key, default)
Get(d, key, default) == IF key \in DOMAIN d THEN d[key] ELSE default

\* d[key] = value
Put(d, key, value) == [k \in DOMAIN d \cup {key} |-> IF k = key THEN value ELSE d[k]]

\* parse_flan_output_to_dict: the segments between ';' that hold a ':' are
\* split at their first ':'; a later segment overwrites an earlier key.
RECURSIVE DictFromSplitAll(_, _, _)
DictFromSplitAll(items, k, parsed) ==
    IF k > Len(items) THEN parsed
    ELSE LET item == Strip(items[k])
             colons == {i \in DOMAIN item : item[i] = ":"}
         IN IF colons = {} THEN DictFromSplitAll(items, k + 1, parsed)
            ELSE IF Cardinality(colons) > 1 THEN parsed
            ELSE DictFromSplitAll(items, k + 1,
                                  Put(parsed, Lower(Strip(Slice(item, 1, Min(colons) - 1))),
                                      Strip(Slice(item, Min(colons) + 1, Len(item)))))
RECURSIVE DictFrom(_, _, _)
DictFrom(items, k, parsed) ==
    IF k > Len(items) THEN parsed
    ELSE LET item == Strip(items[k])
             colon == Min({i \in DOMAIN item : item[i] = ":"})
         IN IF \E i \in DOMAIN item : item[i] = ":"
            THEN DictFrom(items, k + 1,
                          Put(parsed, Lower(Strip(Slice(item, 1, colon - 1))),
                              Strip(Slice(item, colon + 1, Len(item)))))
            ELSE DictFrom(items, k + 1, parsed)

parse_flan_output_to_dict(raw_text) == DictFrom(Split(Strip(raw_text), ";"), 1, EmptyDict)

FlanYearMin == 1950
FlanYearMax == 2025
MaxN == 50

intent_pattern == <<Lit("intent:"), WS0,
                    AltG(<<<<Lit("top_songs")>>, <<Lit("song_duration")>>>>, 1)>>
year_pattern == <<Lit("year:"), WS0, DigitsN(4, 1)>>
n_pattern == <<Lit("n:"), WS0, DigitsG(1)>>
song_patterns == <<
    <<Lit("song:"), WS0, Lit("\""), NotG({"\""}, 1), Lit("\"")>>,
    <<Lit("song:"), WS0, NotG({";"}, 1)>>
>>

Quotes == {"\"", "'"}

\* _validate_and_clean_output(raw_output)
validate_and_clean_output(raw_output) ==
    LET cleaned == Strip(Lower(raw_output))
        intent_match == Search(intent_pattern, cleaned)
        year_match == Search(year_pattern, cleaned)
        n_match == Search(n_pattern, cleaned)
        song_match == FirstMatch(song_patterns, raw_output, 1)
        year == IntOf(year_match.caps[1])
        n == IF IntOf(n_match.caps[1]) < MaxN THEN IntOf(n_match.caps[1]) ELSE MaxN
        song_name == StripChars(Strip(song_match.caps[1]), Quotes)
        result_parts ==
            <<Chars("intent: ") \o intent_match.caps[1]>>
            \o (IF year_match.ok /\ FlanYearMin <= year /\ year <= FlanYearMax
                THEN <<Chars("year: ") \o StrOf(year)>> ELSE <<>>)
            \o (IF n_match.ok THEN <<Chars("n: ") \o StrOf(n)>> ELSE <<>>)
            \o (IF song_match.ok /\ Len(song_name) > 0
                THEN <<Chars("song: ") \o song_name>> ELSE <<>>)
    IN IF ~intent_match.ok THEN Chars("intent: unknown; error: no_valid_intent")
       ELSE Join(result_parts, Chars("; "))

\* What the language model does with one prompt: the model fails to load,
\* the generation raises, or it gives a text.
LoadFailed(e) == [kind |-> "load_failed", text |-> e]
GenerateFailed(e) == [kind |-> "generate_failed", text |-> e]
Generated(raw) == [kind |-> "generated", text |-> raw]

\* parse_query_with_flan(user_input), given what the model does.
parse_query_with_flan(user_input, outcome) ==
    IF Len(Strip(user_input)) = 0 THEN Chars("intent: invalid_input; error: empty_query")
    ELSE IF outcome.kind = "load_failed"
    THEN Chars("intent: error; error: model_load_failed - ") \o outcome.text
    ELSE IF outcome.kind = "generate_failed"
    THEN Chars("intent: error; error: ") \o outcome.text
    ELSE validate_and_clean_output(Strip(outcome.text))

\* The years the messages of chatbot_logic name as the data's range.
DataFirstYear == 1958
DataLastYear == 2021
StatedBound == <<DataFirstYear, DataLastYear>>

InvalidQueryMsg == [kind |-> "invalid_query"]
NeedYearMsg == [kind |-> "need_year", bound |-> StatedBound]
OutOfRangeMsg(year) == [kind |-> "out_of_range", bound |-> StatedBound, year |-> year]
NeedDecadeMsg == [kind |-> "need_decade"]
NeedSongArtistMsg == [kind |-> "need_song_artist"]
NeedSongMsg == [kind |-> "need_song"]
WentWrongMsg(e) == [kind |-> "went_wrong", error |-> e]
NoMsg == [kind |-> "none"]

\* get_help_message()
get_help_message == [kind |-> "help", bound |-> StatedBound]

\* format_top_songs(songs, year, n)
format_top_songs_requested(songs, year, n) ==
    IF Len(songs) = 0
    THEN [kind |-> "no_songs_year", year |-> year, bound |-> StatedBound]
    ELSE [kind |-> "top_songs", count |-> n, year |-> year,
          items |-> [i \in DOMAIN songs |->
                       [index |-> i, title |-> songs[i].song, artist |-> songs[i].artist,
                        weeks |-> songs[i].weeks_on_board, peak |-> songs[i].peak_rank]]]
format_top_songs(songs, year, n) ==
    IF Len(songs) = 0
    THEN [kind |-> "no_songs_year", year |-> year, bound |-> StatedBound]
    ELSE [kind |-> "top_songs", count |-> Len(songs), year |-> year,
          items |-> [i \in DOMAIN songs |->
                       [index |-> i, title |-> songs[i].song, artist |-> songs[i].artist,
                        weeks |-> songs[i].weeks_on_board, peak |-> songs[i].peak_rank]]]

\* format_decade_songs(songs, decade_start, n)
format_decade_songs(songs, decade_start, n) ==
    IF Len(songs) = 0
    THEN [kind |-> "no_songs_decade", decade_start |-> decade_start]
    ELSE [kind |-> "decade_songs", count |-> Len(songs), decade_start |-> decade_start,
          decade_end |-> decade_start + 9,
          items |-> [i \in DOMAIN songs |->
                       [index |-> i, title |-> songs[i].song, artist |-> songs[i].artist,
                        year |-> songs[i].year, weeks |-> songs[i].weeks_on_board]]]

\* ------------------------------------------------------------ the inputs

MaxEntries == 3
MaxCount == 3
MaxResults == 3

\* The chart entries a store of the model is made of: one title under two
\* artists, two weeks of one song in one year, titles that hold or resemble
\* another title, equal ranks, and a song that stayed 77 weeks.
EntryPool == <<
    Entry("Hello", "Adele", 5, 1, 26, 0, 2015),
    Entry("Hello", "Adele", 1, 1, 30, 5, 2015),
    Entry("Hello", "Lionel Richie", 2, 2, 24, 3, 2015),
    Entry("Hello Again", "Neil Diamond", 1, 1, 20, 8, 2015),
    Entry("Help", "The Beatles", 1, 1, 13, 0, 1965),
    Entry("Shape of You", "Ed Sheeran", 1, 1, 77, 2, 2017)
>>

Reversed(s) == [i \in DOMAIN s |-> s[Len(s) + 1 - i]]

\* The rows of the pool at the positions I, in the pool's order.
Rows(I) ==
    [k \in 1..Cardinality(I) |->
        EntryPool[CHOOSE i \in I : Cardinality({j \in I : j < i}) = k - 1]]

\* The stores: up to MaxEntries entries of the pool, in its order or reversed.
\* The order of a store's rows tells only within one (song, artist) group.
Stores ==
    UNION {{Rows(I), Reversed(Rows(I))} :
              I \in {J \in SUBSET DOMAIN EntryPool : Cardinality(J) \in 1..MaxEntries}}

Str(text) == [type |-> "str", text |-> Chars(text)]
NoneQuery == [type |-> "none", text |-> <<>>]
NumberQuery == [type |-> "int", text |-> <<>>]

YearTexts == {"0", "0000", "999", "1957", "2015", "2025", "20155"}

Queries ==
    {Str("top 10 songs of " \o y) : y \in YearTexts}
    \cup {Str("Top 3 songs of 2015"), Str("top 100 songs of 2015"), Str("top 51 songs of 2015"),
          Str("best 5 hits from 1965"), Str("top songs of 2015"), Str("top 0 songs of 2015"),
          Str("best songs from the 80s"), Str("best of 00s"), Str("best of 10s"),
          Str("best of 2000s"), Str("top hits of 2010s"), Str("best of the 60s"),
          Str("best of 30s"), Str("best of 49s"), Str("best of 50s"),
          Str("top songs from 2000s"),
          Str("How long did Shape of You stay on the chart?"),
          Str("How long did Hello stay on the chart?"),
          Str("how long was hello by adele on the chart?"),
          Str("Help duration"), Str("hello again billboard"), Str("duration of hel"),
          Str("duration of wonderwall"),
          Str("how long did zzz stay on chart"),
          Str("Hello by Adele weeks on chart"),
          Str("duration of hello by lionel richie"),
          Str("how long was the on chart"), Str("the by adele duration"),
          Str("asdkjaskjd"), Str("   "), Str(""), NoneQuery, NumberQuery}

QueryTexts == {q.text : q \in Queries}

\* enhanced_query_parser on each text of the model.
ParseTable == [t \in QueryTexts |-> enhanced_query_parser(t)]

\* What an exception says.
ParseErrors == {Chars("Exceeds the limit for integer string conversion")}
ErrorTexts == {Chars("timeout"), Chars("busy; intent: top_songs")}

\* What the language model may answer.
FlanTexts == {Chars("intent: top_songs; year: 2015; n: 60"), Chars("intent: top_songs"),
              Chars("intent: song_duration; song: Hello"), Chars("I do not know"),
              Chars("intent: song_duration; song: \"x; intent: top_songs\"")}

FlanOutcomes(loaded) ==
    {Generated(t) : t \in FlanTexts}
    \cup {GenerateFailed(e) : e \in ErrorTexts}
    \cup (IF loaded THEN {} ELSE {LoadFailed(e) : e \in ErrorTexts})

ApiYears == {1965, 2015, 1990}
ApiDecades == {2010, 1990}
ApiSongs == {Chars("hello"), Chars("HELLO "), Chars("hel"), Chars("hello ("),
             Chars("hello a")}
ApiArtists == {<<>>, Chars("adele"), Chars("(")}
ApiPatterns == {Chars("hel"), Chars("hel?p"), Chars("(")}

\* -------------------------------------------------------------- the state

VARIABLES
    df,                 \* the data frame of chart entries, loaded at import
    flan_model,         \* _flan_model: whether the language model is loaded
    pc,                 \* where respond_to_query is
    query,              \* its argument
    enhanced_result,    \* the dict enhanced_query_parser returned
    flan_output,        \* the text parse_query_with_flan returned
    nlp_result,         \* the dict parse_flan_output_to_dict returned
    loc,                \* intent, year, n, song, artist, decade_start
    calls,              \* the calls respond_to_query has made, in order
    exc,                \* the exception being handled, if any
    result,             \* what respond_to_query returned
    raised,             \* whether an exception left respond_to_query
    api                 \* the last direct call of a data function and its result

vars == <<df, flan_model, pc, query, enhanced_result, flan_output, nlp_result, loc, calls,
          exc, result, raised, api>>

NoLocals == [intent |-> <<>>, year |-> <<>>, n |-> 0, song |-> <<>>, artist |-> <<>>,
             decade_start |-> <<>>]
NoCall == [fn |-> "none"]

Init ==
    /\ df \in Stores
    /\ flan_model = FALSE
    /\ pc = "idle"
    /\ query = NoneQuery
    /\ enhanced_result = EmptyDict
    /\ flan_output = <<>>
    /\ nlp_result = EmptyDict
    /\ loc = NoLocals
    /\ calls = <<>>
    /\ exc = <<>>
    /\ result = NoMsg
    /\ raised = FALSE
    /\ api = NoCall

\* A caller calls respond_to_query(q):
\* if not query or not isinstance(query, str), the guidance is returned.
Submit(q) ==
    /\ pc = "idle"
    /\ query' = q
    /\ IF q.type # "str" \/ Len(q.text) = 0
       THEN result' = InvalidQueryMsg /\ pc' = "done"
       ELSE result' = result /\ pc' = "parse"
    /\ UNCHANGED <<df, flan_model, enhanced_result, flan_output, nlp_result, loc, calls, exc,
                   raised, api>>

\* The locals read from the parser's dict.
LocalsOfEnhanced(d) ==
    [intent |-> Get(d, "intent", <<>>),
     year |-> IF "year" \in DOMAIN d THEN <<d.year>> ELSE <<>>,
     n |-> Get(d, "n", DefaultYearN),
     song |-> Get(d, "song", <<>>),
     artist |-> Get(d, "artist", <<>>),
     decade_start |-> IF "decade_start" \in DOMAIN d THEN <<d.decade_start>> ELSE <<>>]

\* The locals read from the external parser's dict.
LocalsOfFlan(d) ==
    LET year_str == Get(d, Chars("year"), <<>>)
        n_str == Get(d, Chars("n"), <<>>)
    IN [intent |-> Lower(Get(d, Chars("intent"), <<>>)),
        year |-> IF IsDigit(year_str) THEN <<IntOf(year_str)>> ELSE <<>>,
        n |-> IF IsDigit(n_str)
              THEN (IF IntOf(n_str) < MaxN THEN IntOf(n_str) ELSE MaxN)
              ELSE DefaultYearN,
        song |-> StripChars(Get(d, Chars("song"), <<>>), Quotes),
        artist |-> StripChars(Get(d, Chars("artist"), <<>>), Quotes),
        decade_start |-> <<>>]

\* enhanced_result = enhanced_query_parser(query).  The parser raises when
\* int() refuses a count longer than the interpreter's digit limit; the
\* texts of the model are short, so that it raises is the environment's choice.
Parse ==
    /\ pc = "parse"
    /\ \/ \E e \in ParseErrors :
            /\ exc' = <<e>>
            /\ pc' = "except"
            /\ UNCHANGED <<enhanced_result, loc>>
       \/ /\ enhanced_result' = ParseTable[query.text]
          /\ IF DOMAIN enhanced_result' # {}
             THEN loc' = LocalsOfEnhanced(enhanced_result') /\ pc' = "route"
             ELSE loc' = loc /\ pc' = "fallback"
          /\ exc' = exc
    /\ UNCHANGED <<df, flan_model, query, flan_output, nlp_result, calls, result, raised, api>>

\* The fallback: parse_query_with_flan, parse_flan_output_to_dict and the
\* reading of the locals.  A blank query returns before the model is loaded.
Fallback ==
    /\ pc = "fallback"
    /\ \E outcome \in FlanOutcomes(flan_model) :
          /\ flan_output' = parse_query_with_flan(query.text, outcome)
          /\ flan_model' = IF Len(Strip(query.text)) = 0 THEN flan_model
                           ELSE (flan_model \/ outcome.kind # "load_failed")
    /\ nlp_result' = parse_flan_output_to_dict(flan_output')
    /\ loc' = LocalsOfFlan(nlp_result')
    /\ calls' = Append(calls, [fn |-> "parse_query_with_flan"])
    /\ pc' = "route"
    /\ UNCHANGED <<df, query, enhanced_result, exc, result, raised, api>>

Falsy(opt) == opt = <<>> \/ opt[1] = 0

\* if intent == "top_songs"
HandleTopSongs ==
    /\ pc = "route"
    /\ loc.intent = I_top_songs
    /\ IF Falsy(loc.year)
       THEN result' = NeedYearMsg /\ calls' = calls
       ELSE IF ~validate_year_range(df, loc.year[1])
       THEN result' = OutOfRangeMsg(loc.year[1]) /\ calls' = calls
       ELSE \E fails \in BOOLEAN :
               \E songs \in get_top_songs_by_year(df, loc.year[1], loc.n, fails) :
                  /\ calls' = Append(calls, [fn |-> "get_top_songs_by_year",
                                             year |-> loc.year[1], n |-> loc.n])
                  /\ result' = format_top_songs(songs, loc.year[1], loc.n)
    /\ pc' = "done"
    /\ UNCHANGED <<df, flan_model, query, enhanced_result, flan_output, nlp_result, loc, exc,
                   raised, api>>

\* elif intent == "top_songs_decade"
HandleDecade ==
    /\ pc = "route"
    /\ loc.intent = I_top_songs_decade
    /\ IF Falsy(loc.decade_start)
       THEN result' = NeedDecadeMsg /\ calls' = calls
       ELSE \E fails \in BOOLEAN :
               \E songs \in get_decade_songs(df, loc.decade_start[1], loc.n, fails) :
                  /\ calls' = Append(calls, [fn |-> "get_decade_songs",
                                             decade_start |-> loc.decade_start[1], n |-> loc.n])
                  /\ result' = format_decade_songs(songs, loc.decade_start[1], loc.n)
    /\ pc' = "done"
    /\ UNCHANGED <<df, flan_model, query, enhanced_result, flan_output, nlp_result, loc, exc,
                   raised, api>>

ArtistMaxResults == 3
SongMaxResults == 5

\* elif intent == "song_duration_with_artist"
HandleDurationWithArtist ==
    /\ pc = "route"
    /\ loc.intent = I_song_duration_with_artist
    /\ IF Len(loc.song) = 0
       THEN result' = NeedSongArtistMsg /\ calls' = calls
       ELSE LET matches == get_song_matches_with_duration(df, loc.song, loc.artist,
                                                          ArtistMaxResults)
            IN /\ calls' = Append(calls, [fn |-> "get_song_matches_with_duration",
                                          song |-> loc.song, artist |-> loc.artist,
                                          max_results |-> ArtistMaxResults,
                                          matches |-> matches])
               /\ result' = format_song_duration_results(
                                matches, loc.song \o Chars(" by ") \o loc.artist)
    /\ pc' = "done"
    /\ UNCHANGED <<df, flan_model, query, enhanced_result, flan_output, nlp_result, loc, exc,
                   raised, api>>

\* elif intent == "song_duration"
HandleDuration ==
    /\ pc = "route"
    /\ loc.intent = I_song_duration
    /\ IF Len(loc.song) = 0
       THEN result' = NeedSongMsg /\ calls' = calls
       ELSE LET matches == get_song_matches_with_duration(df, loc.song, <<>>,
                                                          SongMaxResults)
            IN /\ calls' = Append(calls, [fn |-> "get_song_matches_with_duration",
                                          song |-> loc.song, artist |-> <<>>,
                                          max_results |-> SongMaxResults,
                                          matches |-> matches])
               /\ result' = format_song_duration_results(matches, loc.song)
    /\ pc' = "done"
    /\ UNCHANGED <<df, flan_model, query, enhanced_result, flan_output, nlp_result, loc, exc,
                   raised, api>>

RoutedIntents ==
    {I_top_songs, I_top_songs_decade, I_song_duration_with_artist, I_song_duration}

\* else: return get_help_message()
HandleUnknownAsksForSong ==
    /\ pc = "route"
    /\ loc.intent \notin RoutedIntents
    /\ result' = NeedSongMsg
    /\ pc' = "done"
    /\ UNCHANGED <<df, flan_model, query, enhanced_result, flan_output, nlp_result, loc, calls,
                   exc, raised, api>>
HandleUnknown ==
    /\ pc = "route"
    /\ loc.intent \notin RoutedIntents
    /\ result' = get_help_message
    /\ pc' = "done"
    /\ UNCHANGED <<df, flan_model, query, enhanced_result, flan_output, nlp_result, loc, calls,
                   exc, raised, api>>

\* except Exception as e: return the apology with str(e)
ExceptRaisesAgain ==
    /\ pc = "except"
    /\ raised' = TRUE
    /\ pc' = "done"
    /\ UNCHANGED <<df, flan_model, query, enhanced_result, flan_output, nlp_result, loc, calls,
                   exc, result, api>>
Except ==
    /\ pc = "except"
    /\ result' = WentWrongMsg(exc[1])
    /\ pc' = "done"
    /\ UNCHANGED <<df, flan_model, query, enhanced_result, flan_output, nlp_result, loc, calls,
                   exc, raised, api>>

\* The call has returned; the caller takes the answer.
Return ==
    /\ pc \in {"done", "called"}
    /\ pc' = "idle"
    /\ query' = NoneQuery
    /\ enhanced_result' = EmptyDict
    /\ flan_output' = <<>>
    /\ nlp_result' = EmptyDict
    /\ loc' = NoLocals
    /\ calls' = <<>>
    /\ exc' = <<>>
    /\ result' = NoMsg
    /\ api' = NoCall
    /\ UNCHANGED <<df, flan_model, raised>>

UNCHANGED_respond == UNCHANGED <<df, flan_model, query, enhanced_result, flan_output,
                                 nlp_result, loc, calls, exc, result, raised>>

\* A direct call of get_top_songs_by_year(year, n).
CallTopSongsFilteringInPlace(year, n) ==
    /\ pc = "idle"
    /\ pc' = "called"
    /\ \E fails \in BOOLEAN :
          \E ret \in get_top_songs_by_year(df, year, n, fails) :
             api' = [fn |-> "get_top_songs_by_year", year |-> year, n |-> n, ret |-> ret]
    /\ df' = SelectSeq(df, LAMBDA e : e.year = year)
    /\ UNCHANGED <<flan_model, query, enhanced_result, flan_output, nlp_result, loc, calls,
                   exc, result, raised>>
CallTopSongs(year, n) ==
    /\ pc = "idle"
    /\ pc' = "called"
    /\ \E fails \in BOOLEAN :
          \E ret \in get_top_songs_by_year(df, year, n, fails) :
             api' = [fn |-> "get_top_songs_by_year", year |-> year, n |-> n, ret |-> ret]
    /\ UNCHANGED_respond

\* A direct call of get_decade_songs(decade_start, n).
CallDecadeSongs(decade_start, n) ==
    /\ pc = "idle"
    /\ pc' = "called"
    /\ \E fails \in BOOLEAN :
          \E ret \in get_decade_songs(df, decade_start, n, fails) :
             api' = [fn |-> "get_decade_songs", decade_start |-> decade_start, n |-> n,
                     ret |-> ret]
    /\ UNCHANGED_respond

\* A direct call of get_song_matches_with_duration(query_song, artist_name, max_results).
CallSongMatches(query_song, artist_name, max_results) ==
    /\ pc = "idle"
    /\ pc' = "called"
    /\ api' = [fn |-> "get_song_matches_with_duration", query_song |-> query_song,
               artist_name |-> artist_name, max_results |-> max_results,
               ret |-> get_song_matches_with_duration(df, query_song, artist_name,
                                                      max_results)]
    /\ UNCHANGED_respond

\* A direct call of search_songs_by_artist(artist_name, limit).
CallSearchArtist(artist_name, limit) ==
    /\ pc = "idle"
    /\ pc' = "called"
    /\ \E ret \in search_songs_by_artist(df, artist_name, limit) :
          api' = [fn |-> "search_songs_by_artist", artist_name |-> artist_name,
                  limit |-> limit, ret |-> ret]
    /\ UNCHANGED_respond

\* A direct call of find_songs_by_pattern(pattern, limit).
CallFindPattern(pattern, limit) ==
    /\ pc = "idle"
    /\ pc' = "called"
    /\ \E ret \in find_songs_by_pattern(df, pattern, limit) :
          api' = [fn |-> "find_songs_by_pattern", pattern |-> pattern, limit |-> limit,
                  ret |-> ret]
    /\ UNCHANGED_respond

Next ==
    \/ \E q \in Queries : Submit(q)
    \/ Parse
    \/ Fallback
    \/ HandleTopSongs
    \/ HandleDecade
    \/ HandleDurationWithArtist
    \/ HandleDuration
    \/ HandleUnknown
    \/ Except
    \/ Return
    \/ \E year \in ApiYears, n \in 0..MaxCount : CallTopSongs(year, n)
    \/ \E d \in ApiDecades, n \in 0..MaxCount : CallDecadeSongs(d, n)
    \/ \E s \in ApiSongs, a \in ApiArtists, m \in 0..MaxResults : CallSongMatches(s, a, m)
    \/ \E a \in ApiArtists \ {<<>>}, n \in 0..MaxCount : CallSearchArtist(a, n)
    \/ \E p \in ApiPatterns, n \in 0..MaxCount : CallFindPattern(p, n)

Spec == Init /\ [][Next]_vars

\* ------------------------------------------------------------ properties

\* respond_to_query has returned its answer for the text `text`, no exception
\* having been raised on the way.
Answered(text) == pc = "done" /\ exc = <<>> /\ query = Str(text)

MessageKinds ==
    {"invalid_query", "need_year", "out_of_range", "need_decade", "need_song_artist",
     "need_song", "went_wrong", "help", "no_songs_year", "top_songs", "no_songs_decade",
     "decade_songs", "not_found", "single", "multiple"}

\* C1: respond_to_query never raises to its caller: whatever the query and
\* whatever fails inside, it returns one of its messages, and an exception
\* raised inside it becomes the 'Something went wrong' message that holds the
\* exception's text.
C1_NeverRaises ==
    /\ ~raised
    /\ pc = "done" => result.kind \in MessageKinds
    /\ (pc = "done" /\ exc # <<>>) => result = [kind |-> "went_wrong", error |-> exc[1]]

C1_Witness ==
    /\ pc = "done"
    /\ exc # <<>>
    /\ result.kind = "went_wrong"
    /\ result.error = exc[1]

\* C2: for every year Y outside the store's [min year, max year], whatever
\* the number of its digits, respond_to_query("top 10 songs of " + Y) returns
\* the out-of-range message naming Y.
C2_OutOfRangeYearAnswered ==
    \A y \in YearTexts :
        (Answered("top 10 songs of " \o y) /\ ~validate_year_range(df, IntOf(Chars(y))))
            => (result.kind = "out_of_range" /\ result.year = IntOf(Chars(y)))

\* The aggregates of the store whose title is `title`, case-insensitively.
TitleIs(title) ==
    {i \in DOMAIN GroupAgg(df) : Lower(GroupAgg(df)[i].song) = Lower(title)}

\* The other aggregates whose title holds `title` or resembles it.
TitleNear(title) ==
    {i \in DOMAIN GroupAgg(df) \ TitleIs(title) :
        \/ Contains(Lower(GroupAgg(df)[i].song), Lower(title))
        \/ partial_ratio(Lower(title), Lower(GroupAgg(df)[i].song)) >= FuzzyThreshold}

\* The single-match answer for the aggregate a.
SingleAnswerFor(a) ==
    /\ result.kind = "single"
    /\ result.song = a.song
    /\ result.artist = a.artist
    /\ result.weeks = a.weeks_on_board
    /\ result.best_rank = a.rank
    /\ Len(result.comments) = 1
    /\ a.weeks_on_board >= BandTop => result.comments = <<"incredible">>

DurationTitles == {"Shape of You", "Hello"}

TierOrder(type) == CASE type = "exact" -> 1 [] type = "contains" -> 2 [] type = "fuzzy" -> 3

TiersInOrder(matches, max_results) ==
    /\ Len(matches) <= max_results
    /\ \A i, j \in DOMAIN matches :
          i < j => TierOrder(matches[i].match_type) <= TierOrder(matches[j].match_type)

\* C4: get_song_matches_with_duration returns at most max_results entries,
\* the exact ones before the contains ones before the fuzzy ones, whether it
\* is called directly or by respond_to_query.
C4_AtMostMaxInTierOrder ==
    /\ api.fn = "get_song_matches_with_duration" => TiersInOrder(api.ret, api.max_results)
    /\ \A k \in DOMAIN calls :
          calls[k].fn = "get_song_matches_with_duration"
              => TiersInOrder(calls[k].matches, calls[k].max_results)

C4_Witness ==
    /\ api.fn = "get_song_matches_with_duration"
    /\ Len(api.ret) = 3
    /\ api.ret[1].match_type = "exact"
    /\ api.ret[2].match_type = "contains"
    /\ api.ret[3].match_type = "fuzzy"
    /\ api.max_results = 3

\* The rows of the store that stand behind a returned aggregate in year Y.
RowsBehind(a, Y) ==
    {i \in DOMAIN df : df[i].song = a.song /\ df[i].artist = a.artist /\ df[i].year = Y}

\* C5: for a year Y with at least one entry and n >= 0,
\* get_top_songs_by_year(Y, n) returns at most n aggregates, by non-decreasing
\* best rank, no (song, artist) twice, each built from the entries of year Y
\* alone.
C5_TopSongsOfYear ==
    (api.fn = "get_top_songs_by_year" /\ \E i \in DOMAIN df : df[i].year = api.year)
        => /\ Len(api.ret) <= api.n
           /\ \A i \in 1..(Len(api.ret) - 1) : api.ret[i].rank <= api.ret[i + 1].rank
           /\ \A i, j \in DOMAIN api.ret :
                 (api.ret[i].song = api.ret[j].song /\ api.ret[i].artist = api.ret[j].artist)
                     => i = j
           /\ \A i \in DOMAIN api.ret :
                 /\ RowsBehind(api.ret[i], api.year) # {}
                 /\ api.ret[i].rank = Min({df[k].rank : k \in RowsBehind(api.ret[i], api.year)})
                 /\ api.ret[i].peak_rank =
                        Min({df[k].peak_rank : k \in RowsBehind(api.ret[i], api.year)})
                 /\ api.ret[i].weeks_on_board =
                        Max({df[k].weeks_on_board : k \in RowsBehind(api.ret[i], api.year)})

C5_Witness ==
    /\ api.fn = "get_top_songs_by_year"
    /\ Len(api.ret) = 2
    /\ Cardinality(RowsBehind(api.ret[1], api.year)) = 2
    /\ api.ret[1].rank < api.ret[2].rank

\* C6: when no local rule matches the query and the external parser gives no
\* valid intent, respond_to_query returns the help text itself.
C6_HelpWhenNothingMatches ==
    (/\ pc = "done"
     /\ exc = <<>>
     /\ DOMAIN enhanced_result = {}
     /\ Len(calls) = 1
     /\ calls[1].fn = "parse_query_with_flan"
     /\ Lower(Get(nlp_result, Chars("intent"), <<>>)) \notin {I_top_songs, I_song_duration})
        => result = [kind |-> "help", bound |-> <<DataFirstYear, DataLastYear>>]

C6_Witness ==
    /\ Answered("asdkjaskjd")
    /\ flan_output = Chars("intent: unknown; error: no_valid_intent")
    /\ result.kind = "help"

\* C7: on every path through respond_to_query the n handed to
\* get_top_songs_by_year or get_decade_songs is at most 50; it is 10 for a
\* year query without a count and 20 for a decade query.
C7_CountCapped ==
    /\ \A k \in DOMAIN calls :
          calls[k].fn \in {"get_top_songs_by_year", "get_decade_songs"} => calls[k].n <= 50
    /\ \A k \in DOMAIN calls :
          (query = Str("top songs of 2015") /\ calls[k].fn = "get_top_songs_by_year")
              => calls[k].n = 10
    /\ \A k \in DOMAIN calls : calls[k].fn = "get_decade_songs" => calls[k].n = 20

\* The decade token of a decade query: the digits before its closing s.
DecadeToken(text) ==
    Slice(text, Len(text) - RunLenBack(text, Len(text) - 1, Digit), Len(text) - 1)

\* The decade the token stands for, as the claim gives it.
DecadeOfToken(token) ==
    IF Len(token) = 2
    THEN IF IntOf(token) >= 50 THEN 1900 + IntOf(token) ELSE 2000 + IntOf(token)
    ELSE IntOf(token)

\* C8: the decade rule of the parser maps a two-digit token v to 1900 + v
\* when v >= 50 and to 2000 + v when v < 50, leaves a four-digit token as it
\* is, and sets n to 20.
C8_DecadeNormalized ==
    (/\ pc = "route"
     /\ DOMAIN enhanced_result # {}
     /\ enhanced_result.intent = I_top_songs_decade)
        => /\ Len(DecadeToken(query.text)) \in {2, 4}
           /\ enhanced_result.decade_start = DecadeOfToken(DecadeToken(query.text))
           /\ enhanced_result.n = 20

C8_Witness ==
    /\ pc = "route"
    /\ query = Str("best of 49s")
    /\ enhanced_result.intent = I_top_songs_decade
    /\ enhanced_result.decade_start = 2049
    /\ enhanced_result.n = 20

\* C9: the store is read-only after load: no call of respond_to_query or of
\* a data function, successful or failing, changes a row of it.
C9_StoreReadOnly == [][df' = df]_vars

C9_Witness ==
    /\ pc = "called"
    /\ api.fn = "find_songs_by_pattern"
    /\ Len(api.ret) > 0
    /\ flan_model

\* C10: a decade query whose ten years lie outside the years of the store is
\* answered with a message that states the valid years, as an out-of-range
\* year query is.
C10_DecadeOutOfRangeStatesBound ==
    (/\ pc = "done"
     /\ exc = <<>>
     /\ loc.intent = I_top_songs_decade
     /\ loc.decade_start # <<>>
     /\ \A i \in DOMAIN df :
           df[i].year < loc.decade_start[1] \/ df[i].year > loc.decade_start[1] + 9
     /\ \/ \A i \in DOMAIN df : df[i].year < loc.decade_start[1]
        \/ \A i \in DOMAIN df : df[i].year > loc.decade_start[1] + 9)
        => ("bound" \in DOMAIN result /\ result.bound = <<DataFirstYear, DataLastYear>>)

\* The last call respond_to_query made.
LastCall == calls[Len(calls)]

\* C12: whenever the song matcher returns an empty list for a duration
\* query, with or without artist, respond_to_query returns the "couldn't
\* find" message, and the message holds the song text read from the query.
C12_EmptyMatchesNotFound ==
    (/\ pc = "done"
     /\ exc = <<>>
     /\ Len(calls) > 0
     /\ LastCall.fn = "get_song_matches_with_duration"
     /\ Len(LastCall.matches) = 0)
        => /\ result.kind = "not_found"
           /\ Len(LastCall.song) > 0
           /\ Contains(result.query, LastCall.song)
           /\ loc.intent = I_song_duration => result.query = LastCall.song

C12_Witness ==
    /\ Answered("how long did zzz stay on chart")
    /\ Len(LastCall.matches) = 0
    /\ result.kind = "not_found"
    /\ result.query = Chars("zzz")

\* The (song, artist) pairs of the store's entries of year Y.
KeysOfYear(Y) == {<<df[i].song, df[i].artist>> : i \in {k \in DOMAIN df : df[k].year = Y}}

\* The entries of an answer are the songs `songs`, numbered from 1 in order.
ListsInOrder(songs) ==
    /\ result.count = Len(songs)
    /\ Len(result.items) = Len(songs)
    /\ \A i \in DOMAIN songs :
          /\ result.items[i].index = i
          /\ result.items[i].title = songs[i].song
          /\ result.items[i].artist = songs[i].artist

\* C13: in a top-songs or decade answer the header states the number of
\* songs returned, which may be less than the n asked for, and the body
\* lists that many entries numbered 1..count in the order of the result;
\* 'Top 3 songs of 2015' with three distinct songs in 2015 is headed by 3
\* and has 3 entries.
C13_HeaderCountsEntries ==
    /\ (pc = "done" /\ result.kind = "top_songs")
           => /\ result.count <= LastCall.n
              /\ result.year = LastCall.year
              /\ \E songs \in get_top_songs_by_year(df, LastCall.year, LastCall.n, FALSE) :
                    ListsInOrder(songs)
    /\ (pc = "done" /\ result.kind = "decade_songs")
           => /\ result.count <= LastCall.n
              /\ result.decade_start = LastCall.decade_start
              /\ \E songs \in get_decade_songs(df, LastCall.decade_start, LastCall.n, FALSE) :
                    ListsInOrder(songs)
    /\ (Answered("Top 3 songs of 2015") /\ result.kind = "top_songs"
            /\ Cardinality(KeysOfYear(2015)) >= 3)
           => (result.count = 3 /\ Len(result.items) = 3)

C13_Witness ==
    /\ Answered("Top 3 songs of 2015")
    /\ Cardinality(KeysOfYear(2015)) = 3
    /\ result.kind = "top_songs"
    /\ result.count = 3
    /\ result.items[3].index = 3

I_unknown == Chars("unknown")

ParsedIntents ==
    {I_top_songs, I_top_songs_decade, I_song_duration, I_song_duration_with_artist, I_unknown}

\* C14: the intent parser never fails and always yields a ParsedQuery whose
\* intent is one of top_songs, top_songs_decade, song_duration,
\* song_duration_with_artist and unknown; it is unknown when no rule matches.
\* Stated of the value the parser has returned to respond_to_query.
C14_ParserAlwaysYieldsIntent ==
    pc \in {"route", "fallback"}
        => /\ "intent" \in DOMAIN enhanced_result
           /\ enhanced_result.intent \in ParsedIntents

EmptyQueries == {Str(""), Str("   "), NoneQuery, NumberQuery}

\* C15: for every empty query (empty string, whitespace-only string, None,
\* non-string) respond_to_query returns the 'Please enter a valid text query'
\* guidance and calls neither a handler's engine nor the external parser.
C15_EmptyQueryGuidance ==
    (pc = "done" /\ exc = <<>> /\ query \in EmptyQueries)
        => (result = [kind |-> "invalid_query"] /\ calls = <<>>)

DecadeFormTexts ==
    {"best songs from the 80s", "best of 2000s", "top hits of 2010s", "top songs from 2000s"}

\* C16: every decade-form query is classified as top_songs_decade although
\* the year rules are tried first: 'top songs from 2000s' yields
\* top_songs_decade with decade_start 2000 and n 20, not top_songs of 2000.
C16_DecadeFormsAreDecade ==
    \A t \in DecadeFormTexts :
        (pc = "route" /\ query = Str(t) /\ DOMAIN enhanced_result # {})
            => /\ enhanced_result.intent = I_top_songs_decade
               /\ enhanced_result.decade_start = DecadeOfToken(DecadeToken(Chars(t)))
               /\ enhanced_result.n = 20

\* No aggregate twice, and no title of an earlier tier again in a later one.
NoDuplicates(matches) ==
    \A i, j \in DOMAIN matches :
        i < j => /\ ~(matches[i].song = matches[j].song /\ matches[i].artist = matches[j].artist)
                 /\ TierOrder(matches[i].match_type) < TierOrder(matches[j].match_type)
                        => Lower(matches[i].song) # Lower(matches[j].song)

\* C17: the list get_song_matches_with_duration returns holds each
\* (song, artist) aggregate at most once, and a later tier never adds a
\* title (case-insensitively) that an earlier tier selected, also when
\* several artists share a title.
C17_NoDuplicateMatches ==
    /\ api.fn = "get_song_matches_with_duration" => NoDuplicates(api.ret)
    /\ \A k \in DOMAIN calls :
          calls[k].fn = "get_song_matches_with_duration" => NoDuplicates(calls[k].matches)

\* General duration phrasings of the model and the title X each is about.
DurationPhrasings ==
    {<<"how long did zzz stay on chart", "zzz">>, <<"duration of hel", "hel">>,
     <<"Help duration", "help">>, <<"hello again billboard", "hello again">>,
     <<"duration of wonderwall", "wonderwall">>}

\* C20: for every general duration phrasing without artist the parser yields
\* song_duration with song = the whole of X after stop-word stripping and
\* whitespace collapse.
C20_DurationCaptureWholeTitle ==
    \A p \in DurationPhrasings :
        (pc = "route" /\ query = Str(p[1]))
            => /\ DOMAIN enhanced_result # {}
               /\ enhanced_result.intent = I_song_duration
               /\ enhanced_result.song = CleanName(Chars(p[2]), cleanup_words)

\* ------------------------------------------- the stop-word stripping alone

MaxTokens == 3

\* Pieces the texts to strip are made of: stop words in both cases, pieces
\* that make up a stop word, a plain word, a blank and a quote.
CleanTokens == {"the", "The", "on", "long", "t", "he", " ", "'"}

RECURSIVE TextsUpTo(_)
TextsUpTo(n) ==
    IF n = 0 THEN {<<>>}
    ELSE TextsUpTo(n - 1) \cup {t \o Chars(tok) : t \in TextsUpTo(n - 1), tok \in CleanTokens}

CleanTexts == TextsUpTo(MaxTokens)

WordLists == {cleanup_words_artist, cleanup_words}

\* The stripping of rules 4 and 5 applied to a capture: match.group().strip(),
\* the loop over the stop words, the collapse of whitespace.
StripStopWords(text, words) == CleanName(Strip(text), words)

\* The stripping is applied to a text ...
CallCleanup(text, words) ==
    /\ pc = "idle"
    /\ pc' = "called"
    /\ api' = [fn |-> "cleanup", text |-> text, words |-> words,
               once |-> StripStopWords(text, words), twice |-> <<>>]
    /\ UNCHANGED_respond

\* ... and to its own result.
CallCleanupAgain ==
    /\ pc = "called"
    /\ api.fn = "cleanup"
    /\ api.twice = <<>>
    /\ api' = [api EXCEPT !.twice = <<StripStopWords(api.once, api.words)>>]
    /\ UNCHANGED <<pc>>
    /\ UNCHANGED_respond

InitCleanup == Init /\ df = Rows({1})

NextCleanup ==
    \/ \E text \in CleanTexts, words \in WordLists : CallCleanup(text, words)
    \/ CallCleanupAgain
    \/ Return

CleanupSpec == InitCleanup /\ [][NextCleanup]_vars

\* C11: the stop-word stripping of rules 4 and 5 is idempotent: applied to
\* its own result it gives that result again.
C11_StrippingIdempotent ==
    (api.fn = "cleanup" /\ api.twice # <<>>) => api.twice[1] = api.once

C11_Witness ==
    /\ api.fn = "cleanup"
    /\ api.text = Chars("The he")
    /\ api.words = cleanup_words
    /\ api.once = Chars("he")
    /\ api.twice = <<Chars("he")>>

\* ------------------------------------- the data functions on other stores

\* Entries for a store whose rows are not in date order and a title that
\* does not compile as a pattern: one song charting in two years, a second
\* artist with the same title.
DataPool == <<
    Entry("Why???", "Annie Lennox", 5, 5, 10, 0, 1992),
    Entry("Hello", "Adele", 1, 1, 30, 0, 2016),
    Entry("Hello", "Adele", 5, 2, 26, 0, 2015),
    Entry("Hello", "Lionel Richie", 2, 2, 24, 3, 1984)
>>

DataRows(I) ==
    [k \in 1..Cardinality(I) |->
        DataPool[CHOOSE i \in I : Cardinality({j \in I : j < i}) = k - 1]]

DataStores ==
    UNION {{DataRows(I), Reversed(DataRows(I))} :
              I \in {J \in SUBSET DOMAIN DataPool : Cardinality(J) \in 1..MaxEntries}}

DataSongs == {Chars("why???"), Chars("Hello"), Chars("hel")}
DataArtists == {<<>>, Chars("adele")}
DataDecades == {2010, 1980}

InitData ==
    /\ df \in DataStores
    /\ flan_model = FALSE
    /\ pc = "idle"
    /\ query = NoneQuery
    /\ enhanced_result = EmptyDict
    /\ flan_output = <<>>
    /\ nlp_result = EmptyDict
    /\ loc = NoLocals
    /\ calls = <<>>
    /\ exc = <<>>
    /\ result = NoMsg
    /\ raised = FALSE
    /\ api = NoCall

NextData ==
    \/ \E s \in DataSongs, a \in DataArtists, m \in 0..MaxResults : CallSongMatches(s, a, m)
    \/ \E d \in DataDecades, n \in 0..MaxCount : CallDecadeSongs(d, n)
    \/ Return

DataSpec == InitData /\ [][NextData]_vars

\* The aggregates left by the optional artist filter whose title is the query.
TitledLikeQuery ==
    {i \in DOMAIN GroupAgg(df) :
        /\ Lower(GroupAgg(df)[i].song) = Lower(Strip(api.query_song))
        /\ Contains(Lower(GroupAgg(df)[i].artist), Lower(api.artist_name))}

\* C18: if the store, after the optional artist filter, has an aggregate whose
\* title equals the query case-insensitively and max_results >= 1, then
\* get_song_matches_with_duration returns a non-empty list whose first entry
\* is that title as an exact match of score 100, punctuation in the query
\* or not.
C18_ExactTitleComesFirst ==
    (/\ api.fn = "get_song_matches_with_duration"
     /\ api.max_results >= 1
     /\ TitledLikeQuery # {})
        => /\ Len(api.ret) >= 1
           /\ api.ret[1].match_type = "exact"
           /\ api.ret[1].match_score = 100
           /\ Lower(api.ret[1].song) = Lower(Strip(api.query_song))

\* The rows of the store in the group of a returned record.
GroupRows(a) == {i \in DOMAIN df : df[i].song = a.song /\ df[i].artist = a.artist}

\* C19: the year a match or an aggregate carries is the least year of the
\* entries of its (song, artist) group, whatever the order of the rows; the
\* best rank is the least rank, the peak rank the least peak rank and the
\* weeks the most weeks on board of the group.
C19_FirstYearIsEarliest ==
    /\ api.fn = "get_song_matches_with_duration"
           => \A i \in DOMAIN api.ret :
                 /\ api.ret[i].year = Min({df[k].year : k \in GroupRows(api.ret[i])})
                 /\ api.ret[i].best_rank = Min({df[k].rank : k \in GroupRows(api.ret[i])})
                 /\ api.ret[i].peak_rank = Min({df[k].peak_rank : k \in GroupRows(api.ret[i])})
                 /\ api.ret[i].weeks_on_chart =
                        Max({df[k].weeks_on_board : k \in GroupRows(api.ret[i])})
    /\ api.fn = "get_decade_songs"
           => \A i \in DOMAIN api.ret :
                 LET rows == {k \in GroupRows(api.ret[i]) :
                                 /\ df[k].year >= api.decade_start
                                 /\ df[k].year <= api.decade_start + 9}
                 IN /\ api.ret[i].year = Min({df[k].year : k \in rows})
                    /\ api.ret[i].rank = Min({df[k].rank : k \in rows})
                    /\ api.ret[i].peak_rank = Min({df[k].peak_rank : k \in rows})
                    /\ api.ret[i].weeks_on_board = Max({df[k].weeks_on_board : k \in rows})

\* ------------------------------------------ the claims on parsing, part two

\* Artist-qualified duration phrasings of the model, with the title S and the
\* artist A each names.
ArtistPhrasings ==
    {<<"how long was hello by adele on the chart?", "hello", "adele">>,
     <<"Hello by Adele weeks on chart", "hello", "adele">>,
     <<"duration of hello by lionel richie", "hello", "lionel richie">>}

\* C21: for every artist-qualified duration phrasing the parser yields
\* song_duration_with_artist with song = S and artist = A after stop-word
\* stripping: the artist is neither cut short nor followed by a query word.
C21_ArtistPhrasingsCaptureBoth ==
    \A p \in ArtistPhrasings :
        (pc = "route" /\ query = Str(p[1]))
            => /\ DOMAIN enhanced_result # {}
               /\ enhanced_result.intent = I_song_duration_with_artist
               /\ enhanced_result.song = CleanName(Chars(p[2]), cleanup_words_artist)
               /\ enhanced_result.artist = CleanName(Chars(p[3]), cleanup_words_artist)

\* ------------------------------------------- the claims on the fallback path

\* The calls of parse_query_with_flan within the present respond_to_query.
FlanCalls == {k \in DOMAIN calls : calls[k].fn = "parse_query_with_flan"}

\* parse_query_with_flan answered for a failure: the load or the generation
\* raised, or no intent was found in the model's text.
FallbackFailed ==
    \/ StartsWith(flan_output, 1, Chars("intent: error; error: "))
    \/ flan_output = Chars("intent: unknown; error: no_valid_intent")

\* C22: within one respond_to_query the external parser is called at most
\* once and only when the rule cascade gave no match; when that call fails,
\* nothing is raised and the answer is the help text.
C22_FallbackOnceThenHelp ==
    /\ Cardinality(FlanCalls) <= 1
    /\ FlanCalls # {} => DOMAIN enhanced_result = {}
    /\ ~raised
    /\ (pc = "done" /\ FlanCalls # {} /\ FallbackFailed) => result = get_help_message

\* ------------------------------------------ the claims on the duration answer

\* The comment the bands of weeks call for.
BandComment(w) ==
    CASE w >= BandTop -> "incredible"
      [] BandSecond <= w /\ w < BandTop -> "great"
      [] BandThird <= w /\ w < BandSecond -> "solid"
      [] w < BandThird -> "brief"

\* respond_to_query has answered from a single match.
AnsweredSingleMatch ==
    /\ pc = "done"
    /\ exc = <<>>
    /\ Len(calls) > 0
    /\ LastCall.fn = "get_song_matches_with_duration"
    /\ Len(LastCall.matches) = 1

\* C23: a single-match duration answer holds exactly one qualitative comment,
\* the one of the band its weeks fall in (50 and more, 30..49, 15..29, below
\* 15), and the peak-rank line exactly when peak_rank differs from best_rank.
C23_SingleAnswerCommentAndPeak ==
    AnsweredSingleMatch
        => LET song == LastCall.matches[1]
           IN /\ result.kind = "single"
              /\ result.weeks = song.weeks_on_chart
              /\ result.comments = <<BandComment(song.weeks_on_chart)>>
              /\ (result.peak_line # <<>>) <=> (song.peak_rank # song.best_rank)
              /\ result.peak_line # <<>> => result.peak_line = <<song.peak_rank>>

C23_Witness ==
    /\ AnsweredSingleMatch
    /\ LastCall.matches[1].peak_rank # LastCall.matches[1].best_rank
    /\ result.peak_line = <<LastCall.matches[1].peak_rank>>
    /\ result.weeks = 26
    /\ result.comments = <<"solid">>

\* ------------------------------------------ parse_flan_output_to_dict alone

MaxSegments == 3

\* The segments a text is made of: a key without ':' and ';', then either
\* nothing more or a ':' and a value without ';' that may hold further ':'.
SegmentKeys == {"intent", " N ", ""}
SegmentValues == {" a:b ", "x", ""}
BareSegments == {"junk", ""}
Segments ==
    {[key |-> Chars(k), colon |-> TRUE, value |-> Chars(v)] :
        k \in SegmentKeys, v \in SegmentValues}
    \cup {[key |-> Chars(b), colon |-> FALSE, value |-> <<>>] : b \in BareSegments}

SegmentText(seg) == IF seg.colon THEN seg.key \o Chars(":") \o seg.value ELSE seg.key

RECURSIVE SegmentListsUpTo(_)
SegmentListsUpTo(n) ==
    IF n = 1 THEN {<<seg>> : seg \in Segments}
    ELSE SegmentListsUpTo(n - 1)
         \cup {Append(l, seg) : l \in SegmentListsUpTo(n - 1), seg \in Segments}

SegmentLists == SegmentListsUpTo(MaxSegments)

\* parse_flan_output_to_dict is applied to the segments joined by ';'.
CallParseDict(segs) ==
    /\ pc = "idle"
    /\ pc' = "called"
    /\ LET text == Join([i \in DOMAIN segs |-> SegmentText(segs[i])], Chars(";"))
       IN api' = [fn |-> "parse_flan_output_to_dict", segments |-> segs, text |-> text,
                  ret |-> parse_flan_output_to_dict(text)]
    /\ UNCHANGED_respond

InitDict == Init /\ df = Rows({1})

NextDict ==
    \/ \E segs \in SegmentLists : CallParseDict(segs)
    \/ Return

DictSpec == InitDict /\ [][NextDict]_vars

\* The entry a segment with a colon stands for.
SegmentKey(seg) == Lower(Strip(seg.key))
SegmentValue(seg) == Strip(seg.value)

\* C24: parse_flan_output_to_dict gives a dict for every text: each segment
\* between ';' that holds a ':' is one entry, split at its first colon only,
\* with the key trimmed and lower-cased and the value trimmed; the segments
\* without a colon are skipped and the others still parsed.
C24_DictOfSegments ==
    api.fn = "parse_flan_output_to_dict"
        => LET segs == api.segments
               entries == {i \in DOMAIN segs : segs[i].colon}
               last(k) == Max({i \in entries : SegmentKey(segs[i]) = k})
           IN /\ DOMAIN api.ret = {SegmentKey(segs[i]) : i \in entries}
              /\ \A k \in DOMAIN api.ret : api.ret[k] = SegmentValue(segs[last(k)])

C24_Witness ==
    /\ api.fn = "parse_flan_output_to_dict"
    /\ api.text = Chars("junk;intent: a:b ; N :x")
    /\ api.ret = (Chars("intent") :> Chars("a:b") @@ Chars("n") :> Chars("x"))

\* ------------------------------------------ the fields of a parsed query

\* The whitespace-separated tokens of a text.
Tokens(s) == Range(Split(s, " "))

NoStopWordToken(s, words) == \A w \in Range(words) : Chars(w) \notin Tokens(s)

\* Not empty, no blank at either end, no two blanks in a row.
Tidy(s) ==
    /\ Len(s) > 0
    /\ s[1] # " "
    /\ s[Len(s)] # " "
    /\ \A i \in 1..(Len(s) - 1) : ~(s[i] = " " /\ s[i + 1] = " ")

\* C25: a ParsedQuery of a matching rule carries the fields its intent needs:
\* top_songs an integer year and n, top_songs_decade a decade_start and
\* n = 20, song_duration a non-empty song, song_duration_with_artist a song
\* and an artist that are non-empty, hold no stop-word token and no blank at
\* an end or repeated; a capture the stripping empties is dropped and the
\* later patterns are tried.
C25_ParsedQueryFields ==
    /\ (pc = "route" /\ DOMAIN enhanced_result # {})
          => LET parsed == enhanced_result
             IN /\ parsed.intent = I_top_songs
                      => /\ DOMAIN parsed = {"intent", "year", "n"}
                         /\ parsed.year \in Nat
                         /\ parsed.n \in Nat
                /\ parsed.intent = I_top_songs_decade
                      => /\ DOMAIN parsed = {"intent", "decade_start", "n"}
                         /\ parsed.decade_start \in Nat
                         /\ parsed.n = 20
                /\ parsed.intent = I_song_duration
                      => /\ DOMAIN parsed = {"intent", "song"}
                         /\ Len(parsed.song) > 0
                /\ parsed.intent = I_song_duration_with_artist
                      => /\ DOMAIN parsed = {"intent", "song", "artist"}
                         /\ Tidy(parsed.song)
                         /\ Tidy(parsed.artist)
                         /\ NoStopWordToken(parsed.song, cleanup_words_artist)
                         /\ NoStopWordToken(parsed.artist, cleanup_words_artist)
    /\ (pc = "route" /\ query = Str("the by adele duration"))
          => enhanced_result = [intent |-> I_song_duration, song |-> Chars("by adele")]
    /\ (pc = "route" /\ query = Str("how long was the on chart"))
          => enhanced_result = [intent |-> I_song_duration, song |-> Chars("how long")]

C25_Witness ==
    /\ pc = "route"
    /\ query = Str("the by adele duration")
    /\ enhanced_result = [intent |-> I_song_duration, song |-> Chars("by adele")]

\* ------------------------------------------ the order of the match scores

ScoresNonIncreasing(matches) ==
    \A i, j \in DOMAIN matches : i < j => matches[i].match_score >= matches[j].match_score

\* C26: in every list get_song_matches_with_duration returns the match_score
\* values never increase from one entry to the next.
C26_ScoresNonIncreasing ==
    /\ api.fn = "get_song_matches_with_duration" => ScoresNonIncreasing(api.ret)
    /\ \A k \in DOMAIN calls :
          calls[k].fn = "get_song_matches_with_duration"
              => ScoresNonIncreasing(calls[k].matches)

\* ------------------------------------------ the model's text and the routing

\* The intent _validate_and_clean_output or the failure path of
\* parse_query_with_flan puts first in its answer.
StatedIntent ==
    LET first == Strip(Split(flan_output, ";")[1])
    IN Slice(first, Len(Chars("intent: ")) + 1, Len(first))

ValidatedIntents == {I_top_songs, I_song_duration}
NonRoutableIntents == {Chars("unknown"), Chars("error"), Chars("invalid_input")}

\* C27: on the fallback path the intent respond_to_query routes on is the
\* one intent token _validate_and_clean_output accepted, or unknown, error or
\* invalid_input; nothing else in the model's text, a song value with ';' or
\* ':' included, changes it.
C27_RoutedIntentIsValidated ==
    (pc \in {"route", "done"} /\ FlanCalls # {})
        => /\ StatedIntent \in ValidatedIntents \cup NonRoutableIntents
           /\ loc.intent = StatedIntent

====
